---- MODULE Spec2Model ----
(***************************************************************************)
(* Model of the expense-tracker command line tool (src/index.js).          *)
(*                                                                         *)
(* The persisted state is two files: expenses.json (a JSON array of        *)
(* expense objects) and budgets.json (a JSON object month -> amount).      *)
(* Every command is one process invocation: it reads a whole file, changes *)
(* the in-memory copy, and writes the whole file back.  A file that does   *)
(* not hold JSON (a CSV export written over it, a file caught between the  *)
(* truncation and the write of fs.writeFileSync, two writes laid over each *)
(* other) is read as the empty array / the empty mapping, with an error    *)
(* line printed.                                                           *)
(*                                                                         *)
(* JavaScript values are modelled as follows.                              *)
(*   number            [t |-> "num", v |-> i]   (amounts are whole units)  *)
(*   NaN               [t |-> "nan", v |-> 0]                              *)
(*   Infinity          [t |-> "inf", v |-> 0]                              *)
(*   null              [t |-> "null", v |-> 0]                             *)
(*   optional option   << >> when the flag is absent (undefined),          *)
(*                     << x >> when the flag carries the value x           *)
(*   date string       the sequence of its characters                      *)
(*   expenses.json     [fmt, val, size]: fmt "absent" while the file does  *)
(*                     not exist, fmt "json" with val the array,           *)
(*                     fmt "csv" with val the exported rows, fmt "torn"    *)
(*                     or "garbage" with val << >>; size is the length of  *)
(*                     the file in characters                              *)
(*   budgets.json      [fmt, val]: fmt "absent", "json" (val the mapping)  *)
(*                     or "csv" (val the exported rows)                    *)
(***************************************************************************)
EXTENDS Integers, Sequences, FiniteSets, TLC

VARIABLES
    store,      \* the file expenses.json
    budgets,    \* the file budgets.json
    csvFile,    \* the file expenses.csv, << >> while it does not exist
    clock,      \* index into Clock: the current point in time
    cmd,        \* the name of the command executed last
    out,        \* what the command executed last printed
    handed,     \* << >>, or << the array the last command passed to writeExpenses >>
    ledger,     \* history: the records added and not deleted since, in add order
    issued,     \* history: the ids the successful adds gave out, in add order
    pc,         \* concurrent invocations: position of each process
    mem,        \* concurrent invocations: the in-memory array of each process
    base,       \* concurrent invocations: version of expenses.json each process read
    res,        \* concurrent invocations: what each process printed
    version,    \* history: number of changes of expenses.json so far
    inits,      \* history: how many of these changes the start-up code made
    lastWriter  \* history: the process whose write reached expenses.json last (0: none)

vars == <<store, budgets, csvFile, clock, cmd, out, handed, ledger, issued,
          pc, mem, base, res, version, inits, lastWriter>>

seqVars  == <<cmd, out, handed, ledger, issued>>
concVars == <<pc, mem, base, res, version, inits, lastWriter>>

(***************************************************************************)
(* Bounds of the model.                                                    *)
(***************************************************************************)
\* successful adds in one behaviour of the sequential specifications
MaxAdds == 3
\* writes of expenses.json in one behaviour of the concurrent specification
MaxWrites == 3

(***************************************************************************)
(* JavaScript values.                                                      *)
(***************************************************************************)
N(i)  == [t |-> "num", v |-> i]
NaN   == [t |-> "nan", v |-> 0]
Inf   == [t |-> "inf", v |-> 0]
Null  == [t |-> "null", v |-> 0]

\* truthiness of a number-like value: 0, NaN and null are falsy
TruthyNum(x) == (x.t = "num" /\ x.v # 0) \/ x.t = "inf"
\* truthiness of a string: the empty string is falsy
TruthyStr(s) == s # ""
\* truthiness of an optional option holding a number / a string
TruthyOptNum(o) == o # << >> /\ TruthyNum(o[1])
TruthyOptStr(o) == o # << >> /\ TruthyStr(o[1])

\* JSON.stringify of a number: NaN and Infinity are written as null
JsonNum(x) == IF x.t = "num" THEN x ELSE Null

\* String.prototype.length of the strings the model uses
StrLen(s) ==
    CASE s = ""       -> 0
      [] s = "Lunch"  -> 5
      [] s = "Taxi"   -> 4
      [] s = "Coffee" -> 6
      [] s = "Other"  -> 5
      [] s = "Food"   -> 4

\* the number of characters of the decimal rendering of an integer
RECURSIVE IntLen(_)
IntLen(i) ==
    IF i < 0 THEN 1 + IntLen(0 - i)
    ELSE IF i < 10 THEN 1 ELSE 1 + IntLen(i \div 10)

\* the number of characters of a serialised number ("null" has four)
NumLen(x) == IF x.t = "num" THEN IntLen(x.v) ELSE 4

(***************************************************************************)
(* Dates.  formatDate(date) is date.toISOString().split('T')[0], the UTC   *)
(* calendar date as YYYY-MM-DD.                                            *)
(***************************************************************************)
Digits == <<"0", "1", "2", "3", "4", "5", "6", "7", "8", "9">>

IsDigit(c) == \E d \in 1..10 : Digits[d] = c
DigitVal(c) == (CHOOSE d \in 1..10 : Digits[d] = c) - 1

RECURSIVE Pow10(_)
Pow10(k) == IF k = 0 THEN 1 ELSE 10 * Pow10(k - 1)

\* the decimal rendering of n, zero padded to w characters
Pad(n, w) == [i \in 1..w |-> Digits[((n \div Pow10(w - i)) % 10) + 1]]

\* the points in time a command can run at (UTC year, month, day)
Clock == << [year |-> 2024, month |-> 7, day |-> 31],
            [year |-> 2024, month |-> 8, day |-> 1] >>

\* variant: the month taken zero based, as Date.prototype.getMonth gives it
formatDateZeroBased(date) ==
    Pad(date.year, 4) \o <<"-">> \o Pad(date.month - 1, 2) \o <<"-">> \o Pad(date.day, 2)

formatDate(date) ==
    Pad(date.year, 4) \o <<"-">> \o Pad(date.month, 2) \o <<"-">> \o Pad(date.day, 2)

\* String.prototype.split(sep) on a sequence of characters
RECURSIVE Split(_, _)
Split(s, sep) ==
    IF \A i \in 1..Len(s) : s[i] # sep
    THEN << s >>
    ELSE LET k == CHOOSE i \in 1..Len(s) :
                      s[i] = sep /\ \A j \in 1..(i - 1) : s[j] # sep
         IN << SubSeq(s, 1, k - 1) >> \o Split(SubSeq(s, k + 1, Len(s)), sep)

\* parseInt on a sequence of characters: the leading run of digits, or NaN
RECURSIVE DigitsValue(_, _)
DigitsValue(s, acc) ==
    IF s = << >> \/ ~IsDigit(Head(s)) THEN acc
    ELSE DigitsValue(Tail(s), 10 * acc + DigitVal(Head(s)))

parseInt(s) ==
    IF s = << >> \/ ~IsDigit(Head(s)) THEN NaN ELSE N(DigitsValue(s, 0))

\* parseInt(e.date.split('-')[1]); a date without '-' gives parseInt(undefined)
MonthOf(date) ==
    LET parts == Split(date, "-")
    IN IF Len(parts) >= 2 THEN parseInt(parts[2]) ELSE NaN

(***************************************************************************)
(* Record store helpers.                                                   *)
(***************************************************************************)
Range(s) == {s[i] : i \in DOMAIN s}

\* JSON.stringify(expenses, null, 2) as to the values: a non-finite amount
\* becomes null
Serialised(expenses) ==
    [i \in 1..Len(expenses) |->
        [expenses[i] EXCEPT !.amount = JsonNum(expenses[i].amount)]]

\* the length of JSON.stringify(expenses, null, 2): "[]" when empty, else one
\* indented line per field, 103 characters per record around the values
RECURSIVE RecordsSize(_)
RecordsSize(expenses) ==
    IF expenses = << >> THEN 0
    ELSE LET e == Head(expenses)
         IN 93 + IntLen(e.id) + Len(e.date) + StrLen(e.description)
                + NumLen(e.amount) + StrLen(e.category)
                + RecordsSize(Tail(expenses))

JsonSize(expenses) ==
    IF expenses = << >> THEN 2
    ELSE 4 + 2 * (Len(expenses) - 1) + RecordsSize(expenses)

\* the file holding JSON.stringify(expenses, null, 2)
JsonDoc(expenses) ==
    [fmt |-> "json", val |-> Serialised(expenses), size |-> JsonSize(expenses)]

\* expenses.json before the first invocation: the file does not exist
NoStore == [fmt |-> "absent", val |-> << >>, size |-> 0]

\* the file once the start-up code of an invocation has run: created holding
\* [] when fs.existsSync(DATA_FILE) is false, left alone otherwise
Started == IF store.fmt = "absent" THEN JsonDoc(<< >>) ELSE store

\* the file between the truncation and the write of fs.writeFileSync
TornDoc == [fmt |-> "torn", val |-> << >>, size |-> 0]

\* readExpenses: the parsed array, [] when JSON.parse throws
readExpenses == IF Started.fmt = "json" THEN Started.val ELSE << >>

\* the line readExpenses prints when JSON.parse throws
ReadErrorLines ==
    IF Started.fmt = "json" THEN << >> ELSE << << "Error reading expenses" >> >>

RECURSIVE MaxOf(_)
MaxOf(S) ==
    LET x == CHOOSE y \in S : TRUE
    IN IF S = {x} THEN x
       ELSE LET m == MaxOf(S \ {x}) IN IF x > m THEN x ELSE m

\* variant: the next id taken from the number of records
generateIdByLength(expenses) == Len(expenses) + 1

generateId(expenses) ==
    IF Len(expenses) > 0 THEN MaxOf({e.id : e \in Range(expenses)}) + 1 ELSE 1

\* the test of writeExpenses on one record: id, date, description, amount truthy
ValidExpense(expense) ==
    /\ expense.id # 0
    /\ expense.date # << >>
    /\ TruthyStr(expense.description)
    /\ TruthyNum(expense.amount)

\* writeExpenses throws before writing when some record fails the test
WriteThrows(expenses) == \E e \in Range(expenses) : ~ValidExpense(e)

\* the file after writeExpenses(expenses) run with no other process writing
writeExpenses(expenses) ==
    IF WriteThrows(expenses) THEN Started ELSE JsonDoc(expenses)

\* expenses.findIndex(e => e.id === id): the first index, 0 for -1
findIndex(expenses, id) ==
    IF id.t = "num" /\ \E i \in 1..Len(expenses) : expenses[i].id = id.v
    THEN CHOOSE i \in 1..Len(expenses) :
             /\ expenses[i].id = id.v
             /\ \A j \in 1..(i - 1) : expenses[j].id # id.v
    ELSE 0

\* expenses.splice(index, 1)
splice(expenses, index) ==
    SubSeq(expenses, 1, index - 1) \o SubSeq(expenses, index + 1, Len(expenses))

ThrownLine == << "Error: Invalid expense data" >>

(***************************************************************************)
(* History (not program state).  ledger follows the commands that reported *)
(* success: an add appends its record, a delete removes the record of that *)
(* id, an update overwrites the fields it supplied a usable value for.     *)
(* issued is the sequence of the ids the adds gave out.                    *)
(***************************************************************************)
LedgerAdd(rec) == Append(ledger, rec)

LedgerDelete(id) == SelectSeq(ledger, LAMBDA r : r.id # id)

LedgerUpdate(id, options) ==
    [i \in 1..Len(ledger) |->
        IF ledger[i].id # id THEN ledger[i]
        ELSE [id          |-> ledger[i].id,
              date        |-> ledger[i].date,
              description |-> IF options.description \notin {<< >>, << "" >>}
                              THEN options.description[1]
                              ELSE ledger[i].description,
              amount      |-> IF options.amount \notin {<< >>, << NaN >>, << N(0) >>}
                              THEN options.amount[1]
                              ELSE ledger[i].amount,
              category    |-> IF options.category \notin {<< >>, << "" >>}
                              THEN options.category[1]
                              ELSE ledger[i].category]]


(***************************************************************************)
(* Initial state: nothing has run yet; expenses.json, budgets.json and     *)
(* expenses.csv do not exist.  Every invocation begins with the start-up   *)
(* code that creates expenses.json holding [] when it is missing; the      *)
(* actions of the sequential specifications include it (Started).          *)
(***************************************************************************)
Procs == {1, 2}

NoBudgets == [fmt |-> "absent", val |-> << >>]

Init ==
    /\ store = NoStore
    /\ budgets = NoBudgets
    /\ csvFile = << >>
    /\ clock = 1
    /\ cmd = "none"
    /\ out = << >>
    /\ handed = << >>
    /\ ledger = << >>
    /\ issued = << >>
    /\ pc = [p \in Procs |-> "idle"]
    /\ mem = [p \in Procs |-> << >>]
    /\ base = [p \in Procs |-> 0]
    /\ res = [p \in Procs |-> << >>]
    /\ version = 0
    /\ inits = 0
    /\ lastWriter = 0

(***************************************************************************)
(* add -d description -a amount [-c category]                              *)
(***************************************************************************)
\* the object literal of the add handler
NewExpense(expenses, options) ==
    [id          |-> generateId(expenses),
     date        |-> formatDate(Clock[clock]),
     description |-> options.description,
     amount      |-> options.amount,
     category    |-> IF TruthyOptStr(options.category)
                     THEN options.category[1] ELSE "Other"]

Add(options) ==
    LET expenses == readExpenses
        newExpense == NewExpense(expenses, options)
        pushed == Append(expenses, newExpense)
    IN /\ cmd' = "add"
       /\ handed' = << pushed >>
       /\ store' = writeExpenses(pushed)
       /\ IF WriteThrows(pushed)
          THEN /\ out' = ReadErrorLines \o << ThrownLine >>
               /\ UNCHANGED <<ledger, issued>>
          ELSE /\ out' = ReadErrorLines
                         \o << << "Expense added successfully", newExpense.id >> >>
               /\ ledger' = LedgerAdd(newExpense)
               /\ issued' = Append(issued, newExpense.id)
       /\ UNCHANGED <<budgets, csvFile, clock>>
       /\ UNCHANGED concVars

(***************************************************************************)
(* update -i id [-d description] [-a amount] [-c category]                 *)
(***************************************************************************)
\* variant: the category defaulted as the add handler defaults it
AssignedDefaulting(expense, options) ==
    [expense EXCEPT
        !.description = IF TruthyOptStr(options.description)
                        THEN options.description[1] ELSE @,
        !.amount      = IF TruthyOptNum(options.amount)
                        THEN options.amount[1] ELSE @,
        !.category    = IF TruthyOptStr(options.category)
                        THEN options.category[1] ELSE "Other"]

\* the record after the three conditional assignments of the handler
Assigned(expense, options) ==
    [expense EXCEPT
        !.description = IF TruthyOptStr(options.description)
                        THEN options.description[1] ELSE @,
        !.amount      = IF TruthyOptNum(options.amount)
                        THEN options.amount[1] ELSE @,
        !.category    = IF TruthyOptStr(options.category)
                        THEN options.category[1] ELSE @]

Update(options) ==
    LET expenses == readExpenses
        index == findIndex(expenses, options.id)
        changed == [expenses EXCEPT ![index] = Assigned(@, options)]
    IN /\ cmd' = "update"
       /\ IF index = 0
          THEN /\ out' = ReadErrorLines \o << << "Expense not found", options.id >> >>
               /\ handed' = << >>
               /\ store' = Started
               /\ UNCHANGED ledger
          ELSE /\ handed' = << changed >>
               /\ store' = writeExpenses(changed)
               /\ IF WriteThrows(changed)
                  THEN /\ out' = << ThrownLine >>
                       /\ UNCHANGED ledger
                  ELSE /\ out' = << << "Expense updated successfully" >> >>
                       /\ ledger' = LedgerUpdate(options.id.v, options)
       /\ UNCHANGED <<budgets, csvFile, clock, issued>>
       /\ UNCHANGED concVars

(***************************************************************************)
(* delete -i id                                                            *)
(***************************************************************************)
\* variant: no early return when findIndex gives -1, so that splice(-1, 1)
\* removes the last record
DeleteUnchecked(options) ==
    LET expenses == readExpenses
        index == findIndex(expenses, options.id)
        spliced == IF index = 0 THEN SubSeq(expenses, 1, Len(expenses) - 1)
                   ELSE SubSeq(expenses, 1, index - 1)
                        \o SubSeq(expenses, index + 1, Len(expenses))
    IN /\ cmd' = "delete"
       /\ handed' = << spliced >>
       /\ store' = writeExpenses(spliced)
       /\ out' = << << "Expense deleted successfully" >> >>
       /\ ledger' = LedgerDelete(options.id.v)
       /\ UNCHANGED <<budgets, csvFile, clock, issued>>
       /\ UNCHANGED concVars

Delete(options) ==
    LET expenses == readExpenses
        index == findIndex(expenses, options.id)
        spliced == splice(expenses, index)
    IN /\ cmd' = "delete"
       /\ IF index = 0
          THEN /\ out' = ReadErrorLines \o << << "Expense not found", options.id >> >>
               /\ handed' = << >>
               /\ store' = Started
               /\ UNCHANGED ledger
          ELSE /\ handed' = << spliced >>
               /\ store' = writeExpenses(spliced)
               /\ IF WriteThrows(spliced)
                  THEN /\ out' = << ThrownLine >>
                       /\ UNCHANGED ledger
                  ELSE /\ out' = << << "Expense deleted successfully" >> >>
                       /\ ledger' = LedgerDelete(options.id.v)
       /\ UNCHANGED <<budgets, csvFile, clock, issued>>
       /\ UNCHANGED concVars

(***************************************************************************)
(* list [-c category]                                                      *)
(***************************************************************************)
\* String.prototype.toLowerCase on the category names the model uses
toLowerCase(s) ==
    CASE s = "Food"  -> "food"
      [] s = "FOOD"  -> "food"
      [] s = "Other" -> "other"
      [] OTHER       -> s

\* e.category || 'Other'
CategoryOf(e) == IF TruthyStr(e.category) THEN e.category ELSE "Other"

FilterCategory(expenses, category) ==
    SelectSeq(expenses,
              LAMBDA e : toLowerCase(CategoryOf(e)) = toLowerCase(category))

\* one printed table row: id, date, category, description, amount
Row(e) == << "row", e.id, e.date, CategoryOf(e), e.description, e.amount >>

\* e.amount.toString() throws on an amount that was stored as null
ListThrows(expenses) == \E e \in Range(expenses) : e.amount.t = "null"

TypeErrorLine == << "TypeError: Cannot read properties of null" >>

\* what list prints: an uncaught TypeError ends the process with nothing
\* else printed
ListLines(options) ==
    LET all == readExpenses
        expenses == IF TruthyOptStr(options.category)
                    THEN FilterCategory(all, options.category[1]) ELSE all
    IN ReadErrorLines \o
       (IF Len(expenses) = 0 THEN << << "No expenses found" >> >>
        ELSE IF ListThrows(expenses) THEN << TypeErrorLine >>
        ELSE << << "header" >> >> \o
             [i \in 1..Len(expenses) |-> Row(expenses[i])])

List(options) ==
    /\ cmd' = "list"
    /\ out' = ListLines(options)
    /\ handed' = << >>
    /\ store' = Started
    /\ UNCHANGED <<budgets, csvFile, clock, ledger, issued>>
    /\ UNCHANGED concVars

(***************************************************************************)
(* Time passes between two invocations.                                    *)
(***************************************************************************)
Tick ==
    /\ clock < Len(Clock)
    /\ clock' = clock + 1
    /\ UNCHANGED <<store, budgets, csvFile, cmd, out, handed, ledger, issued>>
    /\ UNCHANGED concVars

(***************************************************************************)
(* Spec: add, update, delete and list, run one after another, while time   *)
(* passes.                                                                 *)
(***************************************************************************)
Ids == {NaN, N(1), N(2)}

AddOptions ==
    { [description |-> "Lunch", amount |-> N(20), category |-> << >>],
      [description |-> "Lunch", amount |-> N(-5), category |-> << "Food" >>],
      [description |-> "",      amount |-> N(20), category |-> << >>],
      [description |-> "Lunch", amount |-> N(0),  category |-> << >>],
      [description |-> "Lunch", amount |-> NaN,   category |-> << >>],
      [description |-> "Lunch", amount |-> Inf,   category |-> << >>] }

UpdateFields ==
    { [description |-> << "Taxi" >>, amount |-> << >>,        category |-> << >>],
      [description |-> << >>,        amount |-> << >>,        category |-> << "Food" >>],
      [description |-> << "" >>,     amount |-> << N(0) >>,   category |-> << >>],
      [description |-> << >>,        amount |-> << NaN >>,    category |-> << >>],
      [description |-> << >>,        amount |-> << Inf >>,    category |-> << >>],
      [description |-> << >>,        amount |-> << >>,        category |-> << >>] }

WithId(i, f) ==
    [id |-> i, description |-> f.description, amount |-> f.amount,
     category |-> f.category]

UpdateOptions == {WithId(i, f) : i \in Ids, f \in UpdateFields}

DeleteOptions == {[id |-> i] : i \in Ids}

ListOptions == {[category |-> c] : c \in {<< >>, << "FOOD" >>}}

Next ==
    \/ \E o \in AddOptions : Len(issued) < MaxAdds /\ Add(o)
    \/ \E o \in UpdateOptions : Update(o)
    \/ \E o \in DeleteOptions : Delete(o)
    \/ \E o \in ListOptions : List(o)
    \/ Tick

Spec == Init /\ [][Next]_vars

(***************************************************************************)
(* SpecUpdate: add and update, every combination of the update options.    *)
(***************************************************************************)
UpdAddOptions ==
    { [description |-> "Lunch", amount |-> N(20), category |-> << >>],
      [description |-> "Lunch", amount |-> N(20), category |-> << "Food" >>] }

FullUpdateOptions ==
    [id          : {NaN, N(2)},
     description : {<< >>, << "" >>, << "Taxi" >>},
     amount      : {<< >>, << N(0) >>, << N(7) >>, << Inf >>},
     category    : {<< >>, << "" >>, << "Food" >>}]

NextUpdate ==
    \/ \E o \in UpdAddOptions : Len(issued) < MaxAdds /\ Add(o)
    \/ \E o \in FullUpdateOptions : Update(o)

SpecUpdate == Init /\ [][NextUpdate]_vars

(***************************************************************************)
(* export [-f file].  The program is run from its own directory, so the    *)
(* names expenses.json and budgets.json given to --file are the files the  *)
(* program keeps; the CSV text then replaces the JSON document.            *)
(***************************************************************************)
\* one CSV row: id, date, category || 'Other', "description", amount
CsvRow(e) == << e.id, e.date, CategoryOf(e), e.description, e.amount >>

CsvRows(expenses) == [i \in 1..Len(expenses) |-> CsvRow(expenses[i])]

\* the number of characters of the CSV text: the header line and the rows
RECURSIVE CsvSize(_)
CsvSize(expenses) ==
    IF expenses = << >> THEN 36
    ELSE LET e == Head(expenses)
         IN 7 + IntLen(e.id) + Len(e.date) + StrLen(CategoryOf(e))
              + StrLen(e.description) + NumLen(e.amount)
              + CsvSize(Tail(expenses))

\* options.file || 'expenses.csv'
OutputFile(options) ==
    IF TruthyOptStr(options.file) THEN options.file[1] ELSE "expenses.csv"

Export(options) ==
    LET expenses == readExpenses
        outputFile == OutputFile(options)
    IN /\ cmd' = "export"
       /\ out' = ReadErrorLines \o << << "Expenses exported to", outputFile >> >>
       /\ handed' = << >>
       /\ store' = IF outputFile = "expenses.json"
                   THEN [fmt |-> "csv", val |-> CsvRows(expenses),
                         size |-> CsvSize(expenses)]
                   ELSE Started
       /\ budgets' = IF outputFile = "budgets.json"
                     THEN [fmt |-> "csv", val |-> CsvRows(expenses)]
                     ELSE budgets
       /\ csvFile' = IF outputFile = "expenses.csv"
                     THEN CsvRows(expenses) ELSE csvFile
       /\ UNCHANGED <<clock, ledger, issued>>
       /\ UNCHANGED concVars

(***************************************************************************)
(* The budget document budgets.json: month -> amount.  BUDGETS starts as   *)
(* {} in every invocation and stays so when the file is absent or cannot   *)
(* be parsed.                                                              *)
(***************************************************************************)
readBudgets == IF budgets.fmt = "json" THEN budgets.val ELSE << >>

\* what the catch branch of readBudgets prints
BudgetErrorLines ==
    IF budgets.fmt = "csv" THEN << << "Error reading budgets" >> >> ELSE << >>

\* BUDGETS[month] = amount, then writeBudgets: JSON.stringify of BUDGETS
writeBudgets(BUDGETS, month, amount) ==
    [fmt |-> "json",
     val |-> [m \in (DOMAIN BUDGETS) \cup {month} |->
                 IF m = month THEN JsonNum(amount) ELSE BUDGETS[m]]]

\* BUDGETS[month], undefined (<< >>) when the key is absent
BudgetOf(BUDGETS, month) ==
    IF month \in DOMAIN BUDGETS THEN << BUDGETS[month] >> ELSE << >>

(***************************************************************************)
(* set-budget -m month -a amount                                           *)
(***************************************************************************)
SetBudget(options) ==
    /\ cmd' = "set-budget"
    /\ budgets' = writeBudgets(readBudgets, options.month.v, options.amount)
    /\ out' = BudgetErrorLines
              \o << << "Budget set", options.month.v, options.amount >> >>
    /\ handed' = << >>
    /\ store' = Started
    /\ UNCHANGED <<csvFile, clock, ledger, issued>>
    /\ UNCHANGED concVars

(***************************************************************************)
(* summary [-m month] [-c category] [-g]                                   *)
(***************************************************************************)
\* expenses.reduce((sum, e) => sum + e.amount, 0); a null amount adds 0
RECURSIVE Total(_)
Total(expenses) ==
    IF expenses = << >> THEN 0
    ELSE Head(expenses).amount.v + Total(Tail(expenses))

\* parseInt(e.date.split('-')[1]) === month
InMonth(e, month) ==
    LET m == MonthOf(e.date)
    IN m.t = "num" /\ month.t = "num" /\ m.v = month.v

\* the reduce of the by-category view: subtotals in order of first appearance
RECURSIVE ByCategory(_, _)
ByCategory(expenses, acc) ==
    IF expenses = << >> THEN acc
    ELSE LET category == CategoryOf(Head(expenses))
             amount == Head(expenses).amount.v
         IN ByCategory(Tail(expenses),
               IF \E i \in 1..Len(acc) : acc[i][2] = category
               THEN [i \in 1..Len(acc) |->
                       IF acc[i][2] = category
                       THEN << "category", category, acc[i][3] + amount >>
                       ELSE acc[i]]
               ELSE Append(acc, << "category", category, amount >>))

\* the lines of the budget check of the month branch
BudgetLines(total, month) ==
    LET found == BudgetOf(readBudgets, month)
    IN BudgetErrorLines \o
       (IF TruthyOptNum(found)
        THEN LET budget == found[1].v
             IN IF total >= budget
                THEN << << "WARNING exceeded budget", budget, total - budget >> >>
                ELSE << << "Remaining budget", budget - total >> >>
        ELSE << >>)

Summary(options) ==
    LET expenses == readExpenses
        byCat == IF TruthyOptStr(options.category)
                 THEN FilterCategory(expenses, options.category[1])
                 ELSE expenses
        byMonth == SelectSeq(expenses, LAMBDA e : InMonth(e, options.month[1]))
        filtered == IF TruthyOptNum(options.month) THEN byMonth ELSE byCat
        head == IF TruthyOptNum(options.month)
                THEN << << "Total expenses for month", options.month[1].v,
                           Total(filtered) >> >>
                     \o BudgetLines(Total(filtered), options.month[1].v)
                ELSE << << "Total expenses", Total(filtered) >> >>
        groups == IF options.byCategory
                  THEN << << "Expenses by category" >> >>
                       \o ByCategory(filtered, << >>)
                  ELSE << >>
    IN /\ cmd' = "summary"
       /\ out' = ReadErrorLines \o head \o groups
       /\ handed' = << >>
       /\ store' = Started
       /\ UNCHANGED <<budgets, csvFile, clock, ledger, issued>>
       /\ UNCHANGED concVars

(***************************************************************************)
(* SpecBudget: add, set-budget and summary while time passes.              *)
(***************************************************************************)
BudgetAddOptions ==
    { [description |-> "Lunch",  amount |-> N(20), category |-> << >>],
      [description |-> "Coffee", amount |-> N(5),  category |-> << "Food" >>] }

SetBudgetOptions ==
    [month : {N(7), N(8)}, amount : {NaN, N(0), N(20), N(25)}]

SummaryOptions ==
    [month      : {<< >>, << N(0) >>, << N(7) >>, << N(8) >>},
     category   : {<< >>, << "food" >>},
     byCategory : BOOLEAN]

NextBudget ==
    \/ \E o \in BudgetAddOptions : Len(issued) < MaxAdds /\ Add(o)
    \/ \E o \in SetBudgetOptions : SetBudget(o)
    \/ \E o \in SummaryOptions : Summary(o)
    \/ Tick

SpecBudget == Init /\ [][NextBudget]_vars

(***************************************************************************)
(* SpecExport: the commands run one after another on documents that an     *)
(* export may have replaced with CSV text, and on stores holding a null    *)
(* amount.                                                                 *)
(***************************************************************************)
ExportAddOptions ==
    { [description |-> "Lunch", amount |-> N(20), category |-> << >>],
      [description |-> "Lunch", amount |-> Inf,   category |-> << >>] }

ExportOptions ==
    {[file |-> f] : f \in {<< >>, << "expenses.json" >>, << "budgets.json" >>}}

ExportSetBudgetOptions ==
    { [month |-> N(7), amount |-> N(20)], [month |-> N(8), amount |-> N(25)] }

ExportSummaryOptions ==
    [month : {<< >>, << N(7) >>}, category : {<< >>}, byCategory : {FALSE}]

NextExport ==
    \/ \E o \in ExportAddOptions : Len(issued) < MaxAdds /\ Add(o)
    \/ \E o \in DeleteOptions : Delete(o)
    \/ \E o \in ListOptions : List(o)
    \/ \E o \in ExportSetBudgetOptions : SetBudget(o)
    \/ \E o \in ExportSummaryOptions : Summary(o)
    \/ \E o \in ExportOptions : Export(o)

SpecExport == Init /\ [][NextExport]_vars

(***************************************************************************)
(* SpecConc: two invocations at once.  Every invocation begins with the    *)
(* start-up code: fs.existsSync, and when the file is missing a write of   *)
(* [].  A handler reads the whole file in one step.  fs.writeFileSync opens the file with truncation and then     *)
(* writes the text from the start of the file, so a write is two steps:    *)
(* the file is emptied, and later the text lands.  Nothing is locked in    *)
(* between.  A handler that finds nothing to write ends in its read step.  *)
(***************************************************************************)
\* invocations that have read and not yet opened the file for writing
Pending == {q \in Procs : pc[q] \in {"add", "delete"}}

\* invocations that have emptied the file and not yet written their text
Writing == {q \in Procs : pc[q] \in {"adding", "deleting"}}

\* the changes of the file still allowed, so that the behaviours are finite
MayRead ==
    (version - inits) + 2 * Cardinality(Pending) + Cardinality(Writing)
        < 2 * MaxWrites

\* variant: the text is merged into the file, the new record put behind the
\* records the file holds when the text lands
LandedMerging(expenses) ==
    JsonDoc(Append(readExpenses, expenses[Len(expenses)]))

\* the file after a text is written from its start: the text itself, or,
\* when another writer's longer text landed after this writer emptied the
\* file, this text followed by the rest of the other one
Overlay(doc) ==
    IF store.size <= doc.size THEN doc
    ELSE [fmt |-> "garbage", val |-> << >>, size |-> store.size]

\* the file after the text of expenses is written from its start
Landed(expenses) == Overlay(JsonDoc(expenses))

\* the start-up code, fs.existsSync(DATA_FILE): the invocation goes on to
\* create the file when it is missing, and to its handler otherwise
Start(p) ==
    /\ pc[p] = "idle"
    /\ pc' = [pc EXCEPT ![p] = IF store.fmt = "absent" THEN "init" ELSE "ready"]
    /\ UNCHANGED <<store, budgets, csvFile, clock, mem, base, res, version,
                   inits, lastWriter>>
    /\ UNCHANGED seqVars

\* the start-up write of []: the file is created, or opened with truncation
\* when another invocation has created it in between
InitWrite(p) ==
    /\ pc[p] = "init"
    /\ store' = TornDoc
    /\ version' = version + 1
    /\ inits' = inits + 1
    /\ pc' = [pc EXCEPT ![p] = "initing"]
    /\ UNCHANGED <<budgets, csvFile, clock, mem, base, res, lastWriter>>
    /\ UNCHANGED seqVars

\* the text [] lands
InitWritten(p) ==
    /\ pc[p] = "initing"
    /\ store' = Overlay(JsonDoc(<< >>))
    /\ version' = version + 1
    /\ inits' = inits + 1
    /\ lastWriter' = p
    /\ pc' = [pc EXCEPT ![p] = "ready"]
    /\ UNCHANGED <<budgets, csvFile, clock, mem, base, res>>
    /\ UNCHANGED seqVars

AddRead(p, options) ==
    LET expenses == readExpenses
    IN /\ pc[p] = "ready"
       /\ MayRead
       /\ mem' = [mem EXCEPT ![p] = Append(expenses, NewExpense(expenses, options))]
       /\ base' = [base EXCEPT ![p] = version]
       /\ res' = [res EXCEPT ![p] = ReadErrorLines]
       /\ pc' = [pc EXCEPT ![p] = "add"]
       /\ UNCHANGED <<store, budgets, csvFile, clock, version, inits, lastWriter>>
       /\ UNCHANGED seqVars

\* the validation of writeExpenses, then the file is opened with truncation
AddWrite(p) ==
    /\ pc[p] = "add"
    /\ IF WriteThrows(mem[p])
       THEN /\ res' = [res EXCEPT ![p] = @ \o << ThrownLine >>]
            /\ pc' = [pc EXCEPT ![p] = "done"]
            /\ UNCHANGED <<store, version>>
       ELSE /\ store' = TornDoc
            /\ version' = version + 1
            /\ pc' = [pc EXCEPT ![p] = "adding"]
            /\ UNCHANGED res
    /\ UNCHANGED <<budgets, csvFile, clock, mem, base, inits, lastWriter>>
    /\ UNCHANGED seqVars

\* the text lands and the handler reports success
AddWritten(p) ==
    /\ pc[p] = "adding"
    /\ store' = Landed(mem[p])
    /\ version' = version + 1
    /\ lastWriter' = p
    /\ res' = [res EXCEPT ![p] =
                 @ \o << << "Expense added successfully",
                            mem[p][Len(mem[p])].id >> >>]
    /\ pc' = [pc EXCEPT ![p] = "done"]
    /\ UNCHANGED <<budgets, csvFile, clock, mem, base, inits>>
    /\ UNCHANGED seqVars

DeleteRead(p, options) ==
    LET expenses == readExpenses
        index == findIndex(expenses, options.id)
    IN /\ pc[p] = "ready"
       /\ MayRead
       /\ base' = [base EXCEPT ![p] = version]
       /\ IF index = 0
          THEN /\ res' = [res EXCEPT ![p] =
                           ReadErrorLines
                           \o << << "Expense not found", options.id >> >>]
               /\ pc' = [pc EXCEPT ![p] = "done"]
               /\ mem' = [mem EXCEPT ![p] = expenses]
          ELSE /\ mem' = [mem EXCEPT ![p] = splice(expenses, index)]
               /\ pc' = [pc EXCEPT ![p] = "delete"]
               /\ res' = [res EXCEPT ![p] = << >>]
       /\ UNCHANGED <<store, budgets, csvFile, clock, version, inits, lastWriter>>
       /\ UNCHANGED seqVars

DeleteWrite(p) ==
    /\ pc[p] = "delete"
    /\ IF WriteThrows(mem[p])
       THEN /\ res' = [res EXCEPT ![p] = @ \o << ThrownLine >>]
            /\ pc' = [pc EXCEPT ![p] = "done"]
            /\ UNCHANGED <<store, version>>
       ELSE /\ store' = TornDoc
            /\ version' = version + 1
            /\ pc' = [pc EXCEPT ![p] = "deleting"]
            /\ UNCHANGED res
    /\ UNCHANGED <<budgets, csvFile, clock, mem, base, inits, lastWriter>>
    /\ UNCHANGED seqVars

DeleteWritten(p) ==
    /\ pc[p] = "deleting"
    /\ store' = Landed(mem[p])
    /\ version' = version + 1
    /\ lastWriter' = p
    /\ res' = [res EXCEPT ![p] = @ \o << << "Expense deleted successfully" >> >>]
    /\ pc' = [pc EXCEPT ![p] = "done"]
    /\ UNCHANGED <<budgets, csvFile, clock, mem, base, inits>>
    /\ UNCHANGED seqVars

\* list run while other invocations are under way
ListRead(p) ==
    /\ pc[p] = "ready"
    /\ res' = [res EXCEPT ![p] = ListLines([category |-> << >>])]
    /\ mem' = [mem EXCEPT ![p] = readExpenses]
    /\ base' = [base EXCEPT ![p] = version]
    /\ pc' = [pc EXCEPT ![p] = "done"]
    /\ UNCHANGED <<store, budgets, csvFile, clock, version, inits, lastWriter>>
    /\ UNCHANGED seqVars

\* the process ends; the next invocation starts with nothing in memory
Exit(p) ==
    /\ pc[p] = "done"
    /\ pc' = [pc EXCEPT ![p] = "idle"]
    /\ mem' = [mem EXCEPT ![p] = << >>]
    /\ res' = [res EXCEPT ![p] = << >>]
    /\ base' = [base EXCEPT ![p] = 0]
    /\ UNCHANGED <<store, budgets, csvFile, clock, version, inits, lastWriter>>
    /\ UNCHANGED seqVars

ConcAddOptions ==
    { [description |-> "Lunch",  amount |-> N(20), category |-> << >>],
      [description |-> "Coffee", amount |-> N(15), category |-> << >>],
      [description |-> "Lunch",  amount |-> N(0),  category |-> << >>] }

ConcDeleteOptions == {[id |-> i] : i \in {N(1), N(2)}}

NextConc ==
    \/ \E p \in Procs : Start(p)
    \/ \E p \in Procs : InitWrite(p)
    \/ \E p \in Procs : InitWritten(p)
    \/ \E p \in Procs, o \in ConcAddOptions : AddRead(p, o)
    \/ \E p \in Procs : AddWrite(p)
    \/ \E p \in Procs : AddWritten(p)
    \/ \E p \in Procs, o \in ConcDeleteOptions : DeleteRead(p, o)
    \/ \E p \in Procs : DeleteWrite(p)
    \/ \E p \in Procs : DeleteWritten(p)
    \/ \E p \in Procs : ListRead(p)
    \/ \E p \in Procs : Exit(p)

SpecConc == Init /\ [][NextConc]_vars

(***************************************************************************)
(* Properties.                                                             *)
(***************************************************************************)
\* the dates of Clock as the tool is to print them
DateText ==
    << << "2", "0", "2", "4", "-", "0", "7", "-", "3", "1" >>,
       << "2", "0", "2", "4", "-", "0", "8", "-", "0", "1" >> >>

IdsOf(expenses) == [i \in 1..Len(expenses) |-> expenses[i].id]

AddedLine(line) == Len(line) = 2 /\ line[1] = "Expense added successfully"

\* C1: after any sequence of successful add, update and delete commands, list
\* without a category filter prints exactly the records added and not deleted
\* since, each with the values the updates left it with, in the order of the
\* adds (and "No expenses found" when there is none).
ListShowsSurvivors ==
    [][ List([category |-> << >>]) =>
          out' = IF ledger = << >>
                 THEN << << "No expenses found" >> >>
                 ELSE << << "header" >> >> \o
                      [i \in 1..Len(ledger) |->
                         << "row", ledger[i].id, ledger[i].date,
                            ledger[i].category, ledger[i].description,
                            ledger[i].amount >>] ]_vars

\* C2: a successful add appends exactly one record, with id 1 on an empty
\* store and otherwise the largest id of the store plus one, dated with the
\* current date; the records already stored keep their values and order.
AddAppends ==
    [][ \A o \in AddOptions :
          (Add(o) /\ AddedLine(out'[Len(out')])) =>
             LET before == readExpenses
                 after == readExpenses'
             IN /\ Len(after) = Len(before) + 1
                /\ SubSeq(after, 1, Len(before)) = before
                /\ LET r == after[Len(after)]
                   IN /\ IF before = << >> THEN r.id = 1
                         ELSE \E i \in 1..Len(before) :
                                 /\ r.id = before[i].id + 1
                                 /\ \A j \in 1..Len(before) :
                                       before[j].id <= before[i].id
                      /\ r.date = DateText[clock]
                      /\ r.description = o.description
                      /\ out' = << << "Expense added successfully", r.id >> >> ]_vars

\* C2 happens: an add on a later day into a store whose first record was
\* deleted: the new record is last and has the largest id plus one.
AddAppendsWitness ==
    /\ cmd = "add"
    /\ out = << << "Expense added successfully", 3 >> >>
    /\ IdsOf(readExpenses) = << 2, 3 >>
    /\ readExpenses[1].date = DateText[1]
    /\ readExpenses[2].date = DateText[2]

\* C3: no two records of the persisted store have the same id.
UniqueIds ==
    \A i, j \in 1..Len(readExpenses) :
        readExpenses[i].id = readExpenses[j].id => i = j

\* C3 happens: two records are stored after three adds and a delete.
UniqueIdsWitness ==
    /\ Len(issued) = 3
    /\ Len(readExpenses) = 2
    /\ cmd = "add"

\* C4: the id an add gives out is greater than every id an earlier add gave
\* out, the ids of records deleted in between included.
IssuedIdsIncrease ==
    \A i, j \in 1..Len(issued) : i < j => issued[i] < issued[j]

\* the index of the record with this id in the store, 0 when there is none
Position(id) ==
    IF id.t = "num" /\ \E i \in 1..Len(readExpenses) : readExpenses[i].id = id.v
    THEN CHOOSE i \in 1..Len(readExpenses) : readExpenses[i].id = id.v
    ELSE 0

NotFoundOut(id) == << << "Expense not found", id >> >>

\* C5: update on an id of the store changes only fields that were supplied:
\* an omitted field of that record, its id and its date, every other record
\* and the order of the records stay as they were; update on an id that is
\* not in the store leaves the store as it was and reports "not found".
UpdateFrame ==
    [][ \A o \in FullUpdateOptions :
          Update(o) =>
             LET k == Position(o.id)
                 before == readExpenses
                 after == readExpenses'
             IN IF k = 0
                THEN store' = Started /\ out' = NotFoundOut(o.id)
                ELSE /\ Len(after) = Len(before)
                     /\ \A j \in 1..Len(before) : j # k => after[j] = before[j]
                     /\ after[k].id = before[k].id
                     /\ after[k].date = before[k].date
                     /\ o.description = << >> =>
                            after[k].description = before[k].description
                     /\ o.amount = << >> =>
                            after[k].amount = before[k].amount
                     /\ o.category = << >> =>
                            after[k].category = before[k].category ]_vars

\* C5 happens: of two records with category Food and amount 20 the second
\* got a new description and kept the rest, the first kept everything.
UpdateFrameWitness ==
    /\ cmd = "update"
    /\ out = << << "Expense updated successfully" >> >>
    /\ Len(readExpenses) = 2
    /\ readExpenses[1].description = "Lunch" /\ readExpenses[1].category = "Food"
    /\ readExpenses[2].description = "Taxi" /\ readExpenses[2].category = "Food"
    /\ readExpenses[2].amount = N(20)

\* C6: delete with an id that no record of the store has leaves the document
\* as it was, reports "not found" as its last line and raises nothing,
\* whatever the document holds: records, a record with a null amount, or
\* text that is no JSON.
DeleteUnknownId ==
    [][ \A o \in DeleteOptions :
          (Delete(o) /\ Position(o.id) = 0) =>
             /\ store' = Started
             /\ out' = ReadErrorLines \o NotFoundOut(o.id)
             /\ handed' = << >> ]_vars

\* C6 happens: delete of id 1 on a store holding the ids 2 and 3.
DeleteUnknownIdWitness ==
    /\ cmd = "delete"
    /\ out = NotFoundOut(N(1))
    /\ store.fmt = "json"
    /\ IdsOf(readExpenses) = << 2, 3 >>

\* an amount that is falsy: 0, NaN, or the null a document holds
Falsy(amount) == amount.t \in {"nan", "null"} \/ (amount.t = "num" /\ amount.v = 0)

\* a record the write must refuse: id, date or description missing or empty,
\* or a falsy amount
Refused(r) ==
    \/ r.id = 0
    \/ r.date = << >>
    \/ r.description = ""
    \/ Falsy(r.amount)

\* C7: when the array handed to the write holds a record with an empty id,
\* date or description or with a falsy amount, the write raises and the
\* document stays as it was; so an add with amount 0 or NaN persists nothing,
\* and no record of the persisted store is such a record.
WriteValidation ==
    /\ [](\A i \in 1..Len(readExpenses) : ~Refused(readExpenses[i]))
    /\ [][ (cmd' # cmd \/ out' # out \/ handed' # handed) =>
             ((handed' # << >> /\ \E i \in 1..Len(handed'[1]) : Refused(handed'[1][i]))
                 => (store' = Started /\ out' = << ThrownLine >>)) ]_vars
    /\ [][ \A o \in AddOptions :
             (Add(o) /\ Falsy(o.amount)) => store' = Started ]_vars

\* C8: every record of the persisted store has an amount greater than 0.
AmountsPositive ==
    \A i \in 1..Len(readExpenses) :
        readExpenses[i].amount.t = "num" /\ readExpenses[i].amount.v > 0

\* C9: set-budget for a month overwrites the budget of that month and leaves
\* the others; summary for a month m that has a budget greater than 0 prints
\* the sum of the amounts of the expenses dated in m, then a warning with
\* total - budget when the total exceeds the budget and otherwise the
\* remaining budget - total; summary changes neither document.
SummaryAgainstBudget ==
    /\ [][ \A o \in SetBudgetOptions :
             SetBudget(o) =>
                /\ o.amount.t = "num" => readBudgets'[o.month.v] = o.amount
                /\ \A m \in DOMAIN readBudgets :
                      m # o.month.v => (/\ m \in DOMAIN readBudgets'
                                        /\ readBudgets'[m] = readBudgets[m])
                /\ store' = Started ]_vars
    /\ [][ \A o \in SummaryOptions :
             (/\ Summary(o)
              /\ o.month \in {<< N(7) >>, << N(8) >>}
              /\ ~o.byCategory
              /\ o.month[1].v \in DOMAIN readBudgets
              /\ readBudgets[o.month[1].v].t = "num"
              /\ readBudgets[o.month[1].v].v > 0) =>
                LET m == o.month[1].v
                    budget == readBudgets[m].v
                    dated == SelectSeq(readExpenses,
                                       LAMBDA e : e.date[6] = "0"
                                                  /\ e.date[7] = Digits[m + 1])
                    total == Total(dated)
                IN /\ store' = Started
                   /\ budgets' = budgets
                   /\ out' = << << "Total expenses for month", m, total >>,
                                IF total > budget
                                THEN << "WARNING exceeded budget", budget, total - budget >>
                                ELSE << "Remaining budget", budget - total >> >> ]_vars

\* both invocations are adds that reported success after reading the same
\* version of the document
BothAddedFromSameRead ==
    /\ \A p \in Procs : /\ pc[p] = "done"
                        /\ res[p] # << >>
                        /\ AddedLine(res[p][Len(res[p])])
    /\ base[1] = base[2]

\* C10: when two adds both read before either writes, both report success;
\* the document that is left, when it can be read, is the last writer's: one
\* record longer than what they read, not two, and without the other
\* writer's record; and the persisted document never holds two records with
\* the same id.
LostUpdate ==
    /\ (BothAddedFromSameRead /\ store.fmt = "json") =>
          /\ readExpenses = Serialised(mem[lastWriter])
          /\ \A p \in Procs : Len(readExpenses) = Len(mem[p])
          /\ \A p \in Procs :
                mem[p][Len(mem[p])] # mem[lastWriter][Len(readExpenses)] =>
                   \A i \in 1..Len(readExpenses) :
                      readExpenses[i] # mem[p][Len(mem[p])]
    /\ \A i, j \in 1..Len(readExpenses) :
          readExpenses[i].id = readExpenses[j].id => i = j

\* C10 happens: the adds of "Lunch" and of "Coffee" read the same one-record
\* document, both reported success, and only the second writer's is stored.
LostUpdateWitness ==
    /\ BothAddedFromSameRead
    /\ lastWriter = 2
    /\ store.fmt = "json"
    /\ Len(readExpenses) = 2
    /\ mem[1][2].description = "Lunch"
    /\ mem[2][2].description = "Coffee"
    /\ readExpenses[2].description = "Coffee"

====
